---- MODULE Spec2Model ----
(***************************************************************************)
(* A model of the Asteroids simulation core of src/src/lib.rs: the entity  *)
(* store, the deferred command queues, the ResetGame message queue, the    *)
(* shared virtual input, and one action per system of the Update schedule. *)
(*                                                                         *)
(* Numbers.  f32 values are fixed-point integers: world lengths and        *)
(* velocities in quanta of 1/UNIT, unit vectors in thousandths.  Every     *)
(* division truncates toward zero.                                         *)
(*                                                                         *)
(* Scheduling.  run() adds the systems as one tuple with a single ordering *)
(* edge (sync_translate_transform.after(update_position)).  On a native    *)
(* build the multi-threaded executor may run them in any order that        *)
(* serialises conflicting systems, a different one each frame; on wasm32   *)
(* the single-threaded executor runs them in one order, the same every     *)
(* frame, which the code does not choose.  The model draws the order from  *)
(* Schedules: each frame on native, once on wasm.  Commands are applied    *)
(* when the schedule ends.  sync_translate_transform and                   *)
(* sync_starship_rotation_transform write only Transform.translation and   *)
(* Transform.rotation, which no system reads: they are not modelled.       *)
(***************************************************************************)
EXTENDS Integers, Sequences, FiniteSets, TLC

\* ------------------------------------------------------------ bounds
\* frames run
MaxTicks == 3
\* input events: key presses and releases delivered by the host, mobile_*
\* calls made by the page
MaxInputs == 2
\* window resizes
MaxResizes == 1
\* asteroids that one setup or reset draws beside the ship
MaxNear == 1
\* bullets in flight in a scene of SpecHits
MaxSceneBullets == 2
\* frames run by SpecFlight: a bullet is out of range after 97 moves
MaxFlightTicks == 100

\* ------------------------------------------------------------ numbers
\* Fixed-point resolution: quanta per world unit (halves and fifths are exact).
UNIT == 2 * 10
\* Unit vectors are kept in thousandths.
MILLI == 10 * 10 * 10

VIEWPORT_WIDTH == 1280
VIEWPORT_HEIGHT == 720
ASTEROID_VELOCITY == 2
BULLET_VELOCITY == 6
STARSHIP_MAX_VELOCITY == 10
\* 0.8 * VIEWPORT_HEIGHT, in quanta
BULLET_DISTANCE == (VIEWPORT_HEIGHT * 8 * UNIT) \div 10
\* 0.2, in quanta
STARSHIP_ACCELERATION == UNIT \div 5
\* velocity *= 1.0 - 0.01, as the fraction 99/100
DECEL_NUM == 99
DECEL_DEN == 100
\* One rotation step is 5 degrees; a full turn is 72 steps, a quarter turn 18.
FULL_TURN == 72
QUARTER_TURN == 18
\* Transform scales (largest dimension), in world units.
STARSHIP_SCALE == 50
BULLET_SCALE == 5
DEFAULT_SCALE == 1
NUM_ASTEROIDS == 6

Abs(n) == IF n < 0 THEN -n ELSE n
Max(a, b) == IF a > b THEN a ELSE b
\* Division truncating toward zero (b > 0).
TruncDiv(a, b) == IF a >= 0 THEN a \div b ELSE -((-a) \div b)

RECURSIVE SqrtIter(_, _, _)
SqrtIter(n, lo, hi) ==
    IF lo >= hi THEN lo
    ELSE LET mid == (lo + hi + 1) \div 2
         IN IF mid * mid <= n THEN SqrtIter(n, mid, hi) ELSE SqrtIter(n, lo, mid - 1)
\* floor(sqrt(n)) for 0 <= n < 2^31
ISqrt(n) == SqrtIter(n, 0, 46340)
\* sqrt(n) rounded up: a length divided by is never understated, so that
\* every rounding of a normalised vector is toward zero.
ISqrtUp(n) == LET r == ISqrt(n) IN IF r * r = n THEN r ELSE r + 1

\* ------------------------------------------------------------ Vec2
Vec(x, y) == [x |-> x, y |-> y, nan |-> FALSE]
ZERO == Vec(0, 0)
\* A vector whose components are NaN (0.0 / 0.0).
NaNVec == [x |-> 0, y |-> 0, nan |-> TRUE]

VAdd(a, b) == IF a.nan \/ b.nan THEN NaNVec ELSE Vec(a.x + b.x, a.y + b.y)
VSub(a, b) == IF a.nan \/ b.nan THEN NaNVec ELSE Vec(a.x - b.x, a.y - b.y)
LengthSq(a) == a.x * a.x + a.y * a.y
\* a.length() > r and a.length() < r; every comparison with NaN is false.
LengthGt(a, r) == ~a.nan /\ LengthSq(a) > r * r
LengthLt(a, r) == ~a.nan /\ LengthSq(a) < r * r

\* The components scaled so that the larger is about 20000: keeps the
\* integer square root accurate to a thousandth without overflow.
Magnified(a) ==
    LET m == Max(Abs(a.x), Abs(a.y))
        k == IF m < 20000 THEN 20000 \div m ELSE 1
    IN Vec(a.x * k, a.y * k)
UnitOf(a) ==
    LET b == Magnified(a)
        len == ISqrtUp(LengthSq(b))
    IN Vec(TruncDiv(MILLI * b.x, len), TruncDiv(MILLI * b.y, len))
\* Vec2::normalize: v / v.length(); the zero vector gives 0.0 / 0.0 = NaN.
Normalize(a) ==
    IF a.nan \/ (a.x = 0 /\ a.y = 0) THEN NaNVec ELSE UnitOf(a)
\* Vec2::normalize_or_zero: the zero vector (and NaN) gives ZERO.
NormalizeOrZero(a) ==
    IF a.nan \/ (a.x = 0 /\ a.y = 0) THEN ZERO ELSE UnitOf(a)
\* A unit vector (in thousandths) times a length in quanta.
Times(u, len) ==
    IF u.nan THEN NaNVec
    ELSE Vec(TruncDiv(u.x * len, MILLI), TruncDiv(u.y * len, MILLI))

\* cos of k * 5 degrees, k in 0..18, in thousandths (truncated).
CosTable ==
    <<1000, 996, 984, 965, 939, 906, 866, 819, 766, 707,
      642, 573, 500, 422, 342, 258, 173, 87, 0>>
\* cos of k rotation steps, any integer k.
Cos(k) ==
    LET m == k % FULL_TURN
        h == FULL_TURN \div 2
    IN IF m <= QUARTER_TURN THEN CosTable[m + 1]
       ELSE IF m <= h THEN -CosTable[h - m + 1]
       ELSE IF m <= h + QUARTER_TURN THEN -CosTable[m - h + 1]
       ELSE CosTable[FULL_TURN - m + 1]
Sin(k) == Cos(k - QUARTER_TURN)
\* Starship::direction: (cos, sin) of rotation_angle + PI/2.
Direction(rotation_angle) ==
    Vec(Cos(rotation_angle + QUARTER_TURN), Sin(rotation_angle + QUARTER_TURN))

\* AsteroidSize::scale
SizeScale(size) ==
    CASE size = "Big" -> 100
      [] size = "Medium" -> 65
      [] size = "Small" -> 30

\* ------------------------------------------------------------ inputs
\* rand::random::<f32>() * 2.0 - 1.0 lies in [-1, 1): a draw is a pair of
\* numerators over RAND_DEN.
RAND_DEN == 2 * 9
Draw(ux, uy) == [ux |-> ux, uy |-> uy]
\* Draws used for spawn positions: (0, 1/18) is beside the ship, (1/2, 1/2) far.
NearDraw == Draw(0, 1)
FarDraw == Draw(9, 9)
SpawnDraws == {NearDraw, FarDraw}
\* Draws used for headings.
HeadingDraws == {Draw(0, 1)}
\* Sizes the host window can have (width, height).
WindowSizes == {<<VIEWPORT_WIDTH, VIEWPORT_HEIGHT>>, <<800, 600>>}

get_random_point(b, d) ==
    Vec(TruncDiv(d.ux * b.half_width, RAND_DEN),
        TruncDiv(d.uy * b.half_height, RAND_DEN))

\* ------------------------------------------------------------ systems
NativeSystems ==
    {"update_screen_bounds", "keyboard_events", "decelerate_starship",
     "remove_bullet", "update_position", "sync_asteroid_scale_transform",
     "detect_starship_asteroid_collision", "detect_bullet_asteroid_collision",
     "reset_game"}
WasmSystems == NativeSystems \cup {"sync_mobile_input"}
\* Orders the executor may run the systems in: the order of insertion, its
\* reverse, and the order of insertion with both collision checks ahead of
\* the scale sync.
Schedules ==
    {<<"update_screen_bounds", "keyboard_events", "decelerate_starship",
       "remove_bullet", "update_position", "sync_asteroid_scale_transform",
       "detect_starship_asteroid_collision",
       "detect_bullet_asteroid_collision", "reset_game">>,
     <<"reset_game", "detect_bullet_asteroid_collision",
       "detect_starship_asteroid_collision", "sync_asteroid_scale_transform",
       "update_position", "remove_bullet", "decelerate_starship",
       "keyboard_events", "update_screen_bounds">>,
     <<"update_screen_bounds", "keyboard_events", "decelerate_starship",
       "remove_bullet", "update_position",
       "detect_starship_asteroid_collision",
       "detect_bullet_asteroid_collision", "sync_asteroid_scale_transform",
       "reset_game">>}
\* On wasm sync_mobile_input is added by a second add_systems call: it runs
\* before or after the others.
WasmSchedules ==
    {<<"sync_mobile_input">> \o s : s \in Schedules}
        \cup {s \o <<"sync_mobile_input">> : s \in Schedules}

\* ------------------------------------------------------------ state
VARIABLES
    platform,      \* "native" or "wasm" (cfg(target_arch = "wasm32"))
    schedule,      \* the order the executor runs the systems in
    window,        \* the primary window's <<width, height>>
    bounds,        \* ScreenBounds, in quanta
    keys,          \* ButtonInput<KeyCode>: pressed(Arrow*), just_pressed(Space)
    virtual,       \* VIRTUAL_INPUT, behind its mutex
    mobile,        \* Option<Res<MobileInputState>>: present only on wasm
    entities,      \* the entity store: a sequence of component records
    commands,      \* the deferred command queue of each system
    reset_events,  \* ResetGame messages not yet read by reset_game
    ran,           \* the systems that have run in this frame
    phase,         \* "idle" between frames, "update" inside the schedule
    tick,          \* frames begun
    inputs,        \* input events delivered so far
    resizes,       \* window resizes
    unfired,       \* history: touch fire reports not yet turned into a bullet
    applied        \* what the systems did in this frame: "thrust", "decelerate",
                   \* "fire", "hit", "reset"

vars ==
    <<platform, schedule, window, bounds, keys, virtual, mobile, entities,
      commands, reset_events, ran, phase, tick, inputs, resizes, unfired,
      applied>>

Systems == IF platform = "wasm" THEN WasmSystems ELSE NativeSystems

NoCommands ==
    [keyboard_events |-> <<>>, remove_bullet |-> <<>>,
     detect_bullet_asteroid_collision |-> <<>>, reset_game |-> <<>>]

Despawn(i) == [op |-> "despawn", entity |-> i]
Spawn(b) == [op |-> "spawn", bundle |-> b]

NewStarship ==
    [kind |-> "Starship", rotation_angle |-> 0, position |-> ZERO,
     velocity |-> ZERO, scale |-> STARSHIP_SCALE]
\* An asteroid as spawned: Transform::from_translation leaves scale at 1.
NewAsteroid(size, position, heading) ==
    [kind |-> "Asteroid", size |-> size, position |-> position,
     velocity |-> Times(Normalize(heading), ASTEROID_VELOCITY * UNIT),
     scale |-> DEFAULT_SCALE]
\* Mutant of NewBullet: the bullet's start is the origin, not the ship.
NewBulletFromOrigin(position, direction) ==
    [kind |-> "Bullet", start |-> ZERO, position |-> position,
     velocity |-> Times(Normalize(direction), BULLET_VELOCITY * UNIT),
     scale |-> BULLET_SCALE]
NewBullet(position, direction) ==
    [kind |-> "Bullet", start |-> position, position |-> position,
     velocity |-> Times(Normalize(direction), BULLET_VELOCITY * UNIT),
     scale |-> BULLET_SCALE]

\* The draws of the six asteroids of setup and reset_game: a position draw
\* and a heading draw each.  Asteroids are interchangeable, so the draws are
\* enumerated up to their order; at most MaxNear are beside the ship.
DrawRank(d) == d.ux * (2 * RAND_DEN + 1) + d.uy
SixDraws ==
    {f \in [1..NUM_ASTEROIDS -> SpawnDraws \X HeadingDraws] :
        /\ \A i \in 1..(NUM_ASTEROIDS - 1) :
              DrawRank(f[i][1]) <= DrawRank(f[i + 1][1])
        /\ Cardinality({i \in 1..NUM_ASTEROIDS : f[i][1] = NearDraw}) <= MaxNear}
SixAsteroids(b, f) ==
    [i \in 1..NUM_ASTEROIDS |->
        NewAsteroid("Big", get_random_point(b, f[i][1]),
                    get_random_point(b, f[i][2]))]

NoKeys ==
    [ArrowLeft |-> FALSE, ArrowRight |-> FALSE, ArrowUp |-> FALSE,
     Space |-> FALSE]
KeyStates ==
    [ArrowLeft : BOOLEAN, ArrowRight : BOOLEAN, ArrowUp : BOOLEAN,
     Space : BOOLEAN]
\* The presses and releases that lead from one frame's key state to the
\* next: one per arrow key that changed, one for Space if just pressed.
KeyEventsBetween(old, new) ==
    Cardinality({k \in {"ArrowLeft", "ArrowRight", "ArrowUp"} : old[k] # new[k]})
        + (IF new.Space THEN 1 ELSE 0)

\* The ScreenBounds update_screen_bounds derives from a window size.
BoundsOf(w) ==
    [half_width |-> (w[1] * UNIT) \div 2, half_height |-> (w[2] * UNIT) \div 2]

DefaultBounds ==
    [half_width |-> 640 * UNIT, half_height |-> 360 * UNIT]

\* setup: one Starship and six Big asteroids (the Startup commands applied).
setup(f) == <<NewStarship>> \o SixAsteroids(DefaultBounds, f)

InitCommon ==
    /\ window = <<VIEWPORT_WIDTH, VIEWPORT_HEIGHT>>
    /\ bounds = DefaultBounds
    /\ keys = NoKeys
    /\ virtual = [left |-> FALSE, right |-> FALSE, up |-> FALSE, fire |-> FALSE]
    /\ \E f \in SixDraws : entities = setup(f)
    /\ commands = NoCommands
    /\ reset_events = 0
    /\ ran = {}
    /\ phase = "idle"
    /\ tick = 0
    /\ inputs = 0
    /\ resizes = 0
    /\ unfired = 0
    /\ applied = {}

Init ==
    /\ InitCommon
    /\ \/ /\ platform = "native"
          /\ schedule \in Schedules
          /\ mobile = [present |-> FALSE, left |-> FALSE, right |-> FALSE,
                       up |-> FALSE, fire_just_pressed |-> FALSE]
       \/ /\ platform = "wasm"
          /\ schedule \in WasmSchedules
          /\ mobile = [present |-> TRUE, left |-> FALSE, right |-> FALSE,
                       up |-> FALSE, fire_just_pressed |-> FALSE]

\* ------------------------------------------------------------ helpers
Indices(kind) == {i \in DOMAIN entities : entities[i].kind = kind}
\* transform.scale.max_element(), and half of it, in quanta
ScaleOf(e) == e.scale * UNIT
HalfScale(e) == (e.scale * UNIT) \div 2

RECURSIVE SeqOfSet(_)
\* The elements of a set of integers, in increasing order.
SeqOfSet(S) ==
    IF S = {} THEN <<>>
    ELSE LET m == CHOOSE x \in S : \A y \in S : x <= y
         IN <<m>> \o SeqOfSet(S \ {m})

RECURSIVE Flatten(_)
Flatten(ss) == IF ss = <<>> THEN <<>> ELSE Head(ss) \o Flatten(Tail(ss))

\* A system runs once per frame, at its place in the frame's order.
CanRun(s) ==
    /\ phase = "update"
    /\ s \in Systems
    /\ s \notin ran
    /\ schedule[Cardinality(ran) + 1] = s

Ran(s) == ran' = ran \cup {s}

\* ------------------------------------------------------------ frame
\* The host polls input and window size, then runs the Update schedule; at
\* most max_ticks frames are run.
BeginFrameWithin(max_ticks) ==
    /\ phase = "idle"
    /\ tick < max_ticks
    /\ phase' = "update"
    /\ tick' = tick + 1
    /\ ran' = {}
    /\ applied' = {}
    /\ \E k \in KeyStates :
         /\ inputs + KeyEventsBetween(keys, k) <= MaxInputs
         /\ keys' = k
         /\ inputs' = inputs + KeyEventsBetween(keys, k)
    /\ \E w \in WindowSizes :
         /\ w # window => resizes < MaxResizes
         /\ window' = w
         /\ resizes' = IF w # window THEN resizes + 1 ELSE resizes
    /\ schedule' \in IF platform = "native" THEN Schedules ELSE {schedule}
    /\ UNCHANGED <<platform, bounds, virtual, mobile, entities, commands,
                   reset_events, unfired>>

BeginFrame == BeginFrameWithin(MaxTicks)

\* One queue applied to the store: despawns remove, spawns append.
Despawned(q) == {q[i].entity : i \in {j \in DOMAIN q : q[j].op = "despawn"}}
Spawned(q) ==
    LET idx == SeqOfSet({j \in DOMAIN q : q[j].op = "spawn"})
    IN [n \in DOMAIN idx |-> q[idx[n]].bundle]
AllCommands ==
    commands.keyboard_events \o commands.remove_bullet
        \o commands.detect_bullet_asteroid_collision \o commands.reset_game

\* The end of the schedule: every queued command is applied.
ApplyCommands ==
    /\ phase = "update"
    /\ ran = Systems
    /\ LET gone == Despawned(AllCommands)
           kept == SeqOfSet(DOMAIN entities \ gone)
       IN entities' = [n \in DOMAIN kept |-> entities[kept[n]]]
                        \o Spawned(AllCommands)
    /\ commands' = NoCommands
    /\ phase' = "idle"
    /\ UNCHANGED <<platform, schedule, window, bounds, keys, virtual, mobile,
                   reset_events, ran, tick, inputs, resizes, unfired, applied>>

\* ------------------------------------------------------------ systems
update_screen_bounds ==
    /\ CanRun("update_screen_bounds")
    /\ Ran("update_screen_bounds")
    /\ bounds' = BoundsOf(window)
    /\ UNCHANGED <<platform, schedule, window, keys, virtual, mobile, entities,
                   commands, reset_events, phase, tick, inputs, resizes, unfired, applied>>

\* Mutant of Consumed: the one-shot flag is left set.
ConsumedKeepingFlag(v) == v
\* consume(): the snapshot is taken and the one-shot flag cleared under the lock.
Consumed(v) == [v EXCEPT !.fire = FALSE]

sync_mobile_input ==
    /\ CanRun("sync_mobile_input")
    /\ Ran("sync_mobile_input")
    /\ mobile' = [present |-> TRUE, left |-> virtual.left,
                  right |-> virtual.right, up |-> virtual.up,
                  fire_just_pressed |-> virtual.fire]
    /\ virtual' = Consumed(virtual)
    /\ unfired' = IF virtual.fire THEN unfired + 1 ELSE unfired
    /\ UNCHANGED <<platform, schedule, window, bounds, keys, entities,
                   commands, reset_events, phase, tick, inputs, resizes, applied>>

\* Mutant of Thrust: the velocity is not clamped.
ThrustUnclamped(velocity, rotation_angle) ==
    VAdd(velocity, Times(Direction(rotation_angle), STARSHIP_ACCELERATION))
\* The thrust step of keyboard_events on a velocity.
Thrust(velocity, rotation_angle) ==
    LET v == VAdd(velocity, Times(Direction(rotation_angle), STARSHIP_ACCELERATION))
    IN IF LengthGt(v, STARSHIP_MAX_VELOCITY * UNIT)
       THEN Times(NormalizeOrZero(v), STARSHIP_MAX_VELOCITY * UNIT)
       ELSE v
\* Mutant of Rotate: left and right held together cancel.
RotateCancelling(rotation_angle, left_pressed, right_pressed) ==
    IF left_pressed /\ ~right_pressed THEN rotation_angle + 1
    ELSE IF right_pressed /\ ~left_pressed THEN rotation_angle - 1
    ELSE rotation_angle
\* The rotation step of keyboard_events.
Rotate(rotation_angle, left_pressed, right_pressed) ==
    IF left_pressed THEN rotation_angle + 1
    ELSE IF right_pressed THEN rotation_angle - 1
    ELSE rotation_angle
\* mobile.map_or(false, |m| m.<field>)
MobileOr(field) == mobile.present /\ mobile[field]

Steer(e, left_pressed, right_pressed, up_pressed) ==
    LET angle == Rotate(e.rotation_angle, left_pressed, right_pressed)
    IN [e EXCEPT !.rotation_angle = angle,
                 !.velocity = IF up_pressed THEN Thrust(e.velocity, angle)
                              ELSE e.velocity]

keyboard_events ==
    /\ CanRun("keyboard_events")
    /\ Ran("keyboard_events")
    /\  LET left_pressed == keys.ArrowLeft \/ MobileOr("left")
            right_pressed == keys.ArrowRight \/ MobileOr("right")
            up_pressed == keys.ArrowUp \/ MobileOr("up")
            fire_just_pressed == keys.Space \/ MobileOr("fire_just_pressed")
            steered == [i \in DOMAIN entities |->
                          IF entities[i].kind = "Starship"
                          THEN Steer(entities[i], left_pressed, right_pressed,
                                     up_pressed)
                          ELSE entities[i]]
            ships == SeqOfSet(Indices("Starship"))
        IN /\ entities' = steered
           /\ applied' = applied
                         \cup (IF up_pressed /\ ships # <<>> THEN {"thrust"} ELSE {})
                         \cup (IF fire_just_pressed /\ ships # <<>> THEN {"fire"} ELSE {})
           /\ commands' =
                [commands EXCEPT !.keyboard_events =
                    IF fire_just_pressed
                    THEN [n \in DOMAIN ships |->
                            Spawn(NewBullet(steered[ships[n]].position,
                                  Direction(steered[ships[n]].rotation_angle)))]
                    ELSE <<>>]
           /\ unfired' = IF MobileOr("fire_just_pressed") /\ ships # <<>>
                         THEN unfired - 1 ELSE unfired
    /\ UNCHANGED <<platform, schedule, window, bounds, keys, virtual, mobile,
                   reset_events, phase, tick, inputs, resizes>>

\* velocity *= 1.0 - STARSHIP_DECELERATION
Decelerated(v) ==
    IF v.nan THEN NaNVec
    ELSE Vec(TruncDiv(v.x * DECEL_NUM, DECEL_DEN), TruncDiv(v.y * DECEL_NUM, DECEL_DEN))

\* The key that holds deceleration off.
DecelerationHeldOff == keys.ArrowUp

decelerate_starship ==
    /\ CanRun("decelerate_starship")
    /\ Ran("decelerate_starship")
    /\ IF ~DecelerationHeldOff
       THEN /\ entities' = [i \in DOMAIN entities |->
                              IF entities[i].kind = "Starship"
                              THEN [entities[i] EXCEPT
                                      !.velocity = Decelerated(entities[i].velocity)]
                              ELSE entities[i]]
            /\ applied' = IF Indices("Starship") # {}
                          THEN applied \cup {"decelerate"} ELSE applied
       ELSE UNCHANGED <<entities, applied>>
    /\ UNCHANGED <<platform, schedule, window, bounds, keys, virtual, mobile,
                   commands, reset_events, phase, tick, inputs, resizes, unfired>>

\* Mutant of OutOfRange: a bullet at exactly BULLET_DISTANCE is out of range.
OutOfRangeInclusive(start, position) ==
    ~LengthLt(VSub(start, position), BULLET_DISTANCE)
\* Whether remove_bullet despawns a bullet with this start and position.
OutOfRange(start, position) == LengthGt(VSub(start, position), BULLET_DISTANCE)

remove_bullet ==
    /\ CanRun("remove_bullet")
    /\ Ran("remove_bullet")
    /\ LET out == SeqOfSet({i \in Indices("Bullet") :
                      OutOfRange(entities[i].start, entities[i].position)})
       IN commands' = [commands EXCEPT !.remove_bullet =
                         [n \in DOMAIN out |-> Despawn(out[n])]]
    /\ UNCHANGED <<platform, schedule, window, bounds, keys, virtual, mobile,
                   entities, reset_events, phase, tick, inputs, resizes, unfired, applied>>

\* Mutant of WrapAxis: the entity re-enters at the edge of the window, its
\* half scale forgotten.
WrapAxisToEdge(p, max, half_scale) ==
    IF p > max + half_scale THEN -max
    ELSE IF p < (-max) - half_scale THEN max
    ELSE p
\* One axis of the wrap: p is the coordinate after the Euler step.
WrapAxis(p, max, half_scale) ==
    IF p > max + half_scale THEN (-max) - half_scale
    ELSE IF p < (-max) - half_scale THEN max + half_scale
    ELSE p
\* The new position of an entity.
Moved(e, b) ==
    LET p == VAdd(e.position, e.velocity)
    IN IF p.nan THEN NaNVec
       ELSE Vec(WrapAxis(p.x, b.half_width, HalfScale(e)),
                WrapAxis(p.y, b.half_height, HalfScale(e)))

update_position ==
    /\ CanRun("update_position")
    /\ Ran("update_position")
    /\ entities' = [i \in DOMAIN entities |->
                      [entities[i] EXCEPT !.position = Moved(entities[i], bounds)]]
    /\ UNCHANGED <<platform, schedule, window, bounds, keys, virtual, mobile,
                   commands, reset_events, phase, tick, inputs, resizes, unfired, applied>>

sync_asteroid_scale_transform ==
    /\ CanRun("sync_asteroid_scale_transform")
    /\ Ran("sync_asteroid_scale_transform")
    /\ entities' = [i \in DOMAIN entities |->
                      IF entities[i].kind = "Asteroid"
                      THEN [entities[i] EXCEPT !.scale = SizeScale(entities[i].size)]
                      ELSE entities[i]]
    /\ UNCHANGED <<platform, schedule, window, bounds, keys, virtual, mobile,
                   commands, reset_events, phase, tick, inputs, resizes, unfired, applied>>

\* distance < starship_size / 4.0 + asteroid_size / 2.0  (exact in quanta)
ShipHits(s, a) ==
    LengthLt(VSub(s.position, a.position),
             (ScaleOf(s) \div 4) + (ScaleOf(a) \div 2))
\* distance < bullet_size / 2.0 + asteroid_size / 2.0  (exact in quanta)
BulletHits(b, a) ==
    LengthLt(VSub(b.position, a.position),
             (ScaleOf(b) \div 2) + (ScaleOf(a) \div 2))

\* The number of ResetGame messages one run of the collision check writes.
ResetsWritten ==
    IF \E s \in Indices("Starship"), a \in Indices("Asteroid") :
          ShipHits(entities[s], entities[a])
    THEN 1 ELSE 0

detect_starship_asteroid_collision ==
    /\ CanRun("detect_starship_asteroid_collision")
    /\ Ran("detect_starship_asteroid_collision")
    /\ reset_events' = reset_events + ResetsWritten
    /\ UNCHANGED <<platform, schedule, window, bounds, keys, virtual, mobile,
                   entities, commands, phase, tick, inputs, resizes, unfired, applied>>

\* The size an asteroid splits into.
SplitSize(size) ==
    CASE size = "Big" -> "Medium"
      [] size = "Medium" -> "Small"
      [] size = "Small" -> "None"
\* for _ in 0..2
CHILDREN == 2

\* The commands of one bullet-asteroid hit; h holds the children's heading draws.
HitCommands(b, a, h) ==
    <<Despawn(b), Despawn(a)>> \o
    (IF SplitSize(entities[a].size) = "None" THEN <<>>
     ELSE [c \in 1..CHILDREN |->
             Spawn(NewAsteroid(SplitSize(entities[a].size), entities[a].position,
                               get_random_point(bounds, h[c])))])

\* Mutant of Hits: a bullet's loop over the asteroids stops at its first hit.
HitsWithBreak ==
    LET k == Len(entities) + 1
        first(b) == {a \in Indices("Asteroid") :
                       /\ BulletHits(entities[b], entities[a])
                       /\ \A o \in Indices("Asteroid") :
                             BulletHits(entities[b], entities[o]) => a <= o}
        codes == {pr[1] * k + pr[2] : pr \in
                    {pr \in Indices("Bullet") \X Indices("Asteroid") :
                        pr[2] \in first(pr[1])}}
        sorted == SeqOfSet(codes)
    IN [n \in DOMAIN sorted |-> <<sorted[n] \div k, sorted[n] % k>>]
\* The overlapping (bullet, asteroid) pairs, in iteration order.
Hits ==
    LET k == Len(entities) + 1
        codes == {pr[1] * k + pr[2] : pr \in
                    {pr \in Indices("Bullet") \X Indices("Asteroid") :
                        BulletHits(entities[pr[1]], entities[pr[2]])}}
        sorted == SeqOfSet(codes)
    IN [n \in DOMAIN sorted |-> <<sorted[n] \div k, sorted[n] % k>>]

detect_bullet_asteroid_collision ==
    /\ CanRun("detect_bullet_asteroid_collision")
    /\ Ran("detect_bullet_asteroid_collision")
    /\ \E hd \in [DOMAIN Hits -> [1..CHILDREN -> HeadingDraws]] :
         commands' = [commands EXCEPT !.detect_bullet_asteroid_collision =
                        Flatten([n \in DOMAIN Hits |->
                                   HitCommands(Hits[n][1], Hits[n][2], hd[n])])]
    /\ applied' = IF Hits # <<>> THEN applied \cup {"hit"} ELSE applied
    /\ UNCHANGED <<platform, schedule, window, bounds, keys, virtual, mobile,
                   entities, reset_events, phase, tick, inputs, resizes, unfired>>

\* Mutant of MessagesRead: reset_game goes on without having read a message.
MessagesReadUnchecked == IF reset_events >= 0 THEN 1 ELSE 0
\* reset_events.read().next(): the messages one run of reset_game consumes.
MessagesRead == IF reset_events > 0 THEN 1 ELSE 0

\* Mutant of ResetCommands: the starship is not spawned again.
ResetWithoutStarship(f) ==
    [i \in DOMAIN entities |-> Despawn(i)]
        \o [i \in 1..NUM_ASTEROIDS |-> Spawn(SixAsteroids(bounds, f)[i])]
\* What reset_game queues once it has read a message.
ResetCommands(f) ==
    [i \in DOMAIN entities |-> Despawn(i)]
        \o <<Spawn(NewStarship)>>
        \o [i \in 1..NUM_ASTEROIDS |-> Spawn(SixAsteroids(bounds, f)[i])]

reset_game ==
    /\ CanRun("reset_game")
    /\ Ran("reset_game")
    /\ reset_events' = reset_events - MessagesRead
    /\ IF MessagesRead = 0
       THEN UNCHANGED <<commands, applied>>
       ELSE /\ \E f \in SixDraws :
                 commands' = [commands EXCEPT !.reset_game = ResetCommands(f)]
            /\ applied' = applied \cup {"reset"}
    /\ UNCHANGED <<platform, schedule, window, bounds, keys, virtual, mobile,
                   entities, phase, tick, inputs, resizes, unfired>>

\* ------------------------------------------------------------ touch controls
\* A mobile_* export: takes the lock and sets one field, between two systems
\* or between two frames.
MobileCall(field, value) ==
    /\ platform = "wasm"
    /\ inputs < MaxInputs
    /\ inputs' = inputs + 1
    /\ virtual' = [virtual EXCEPT ![field] = value]
    /\ UNCHANGED <<platform, schedule, window, bounds, keys, mobile, entities,
                   commands, reset_events, ran, phase, tick, resizes, unfired,
                   applied>>

mobile_left_down == MobileCall("left", TRUE)
mobile_left_up == MobileCall("left", FALSE)
mobile_right_down == MobileCall("right", TRUE)
mobile_right_up == MobileCall("right", FALSE)
mobile_up_down == MobileCall("up", TRUE)
mobile_up_up == MobileCall("up", FALSE)
mobile_fire == MobileCall("fire", TRUE)

\* ------------------------------------------------------------ specification
\* The systems of every build, and the end of the schedule.
Frame ==
    \/ update_screen_bounds
    \/ keyboard_events
    \/ decelerate_starship
    \/ remove_bullet
    \/ update_position
    \/ sync_asteroid_scale_transform
    \/ detect_starship_asteroid_collision
    \/ detect_bullet_asteroid_collision
    \/ reset_game
    \/ ApplyCommands

Next ==
    \/ BeginFrame
    \/ Frame
    \/ sync_mobile_input
    \/ mobile_left_down
    \/ mobile_left_up
    \/ mobile_right_down
    \/ mobile_right_up
    \/ mobile_up_down
    \/ mobile_up_up
    \/ mobile_fire

Spec == Init /\ [][Next]_vars

\* ------------------------------------------------------------ scenes
\* A game in progress on a native build: the state between two frames that
\* holds the given entities, with the given keys held and the given number
\* of input events delivered.
SceneInitWith(scene, held, delivered) ==
    /\ platform = "native"
    /\ schedule \in Schedules
    /\ mobile = [present |-> FALSE, left |-> FALSE, right |-> FALSE,
                 up |-> FALSE, fire_just_pressed |-> FALSE]
    /\ window = <<VIEWPORT_WIDTH, VIEWPORT_HEIGHT>>
    /\ bounds = DefaultBounds
    /\ keys = held
    /\ virtual = [left |-> FALSE, right |-> FALSE, up |-> FALSE, fire |-> FALSE]
    /\ entities = scene
    /\ commands = NoCommands
    /\ reset_events = 0
    /\ ran = {}
    /\ phase = "idle"
    /\ tick = 0
    /\ inputs = delivered
    /\ resizes = MaxResizes
    /\ unfired = 0
    /\ applied = {}
\* The same with no key held and no further input.
SceneInit(scene) == SceneInitWith(scene, NoKeys, MaxInputs)

\* A bullet fired at start by a ship of the given rotation_angle, after its
\* n-th move (no wrap yet).
BulletFrom(start, rotation_angle, n) ==
    LET b == NewBullet(start, Direction(rotation_angle))
    IN [b EXCEPT !.position = Vec(start.x + n * b.velocity.x,
                                  start.y + n * b.velocity.y)]
\* A bullet fired from the origin with the ship unrotated.
BulletAfter(n) == BulletFrom(ZERO, 0, n)
\* The least whole distance at which a bullet does not yet hit the asteroid.
HitOffset(size) ==
    CASE size = "Big" -> 53
      [] size = "Medium" -> 35
      [] size = "Small" -> 18
\* An asteroid drifting left across the bullets' line of fire, level with
\* the bullet that has moved n times and one move short of it (and of the
\* bullet fired two frames later, which is as far below as the first will
\* be above); its scale has been synced.
CrossingAsteroid(size, n) ==
    LET a == NewAsteroid(size, Vec(HitOffset(size) * UNIT, n * BULLET_VELOCITY * UNIT),
                         Vec(-1, 0))
    IN [a EXCEPT !.scale = SizeScale(size)]
\* The ship has fired every second frame: the k-th bullet has moved
\* n - 2 * (k - 1) times.
HitScenes ==
    {<<NewStarship, CrossingAsteroid(size, n)>>
        \o [k \in 1..nb |-> BulletAfter(n - 2 * (k - 1))] :
        size \in {"Big", "Medium", "Small"},
        n \in {10, 11},
        nb \in 1..MaxSceneBullets}

HitsInit == \E scene \in HitScenes : SceneInit(scene)
NextHits == BeginFrame \/ Frame
SpecHits == HitsInit /\ [][NextHits]_vars

\* A ship that has come to rest at a position, turned by rotation_angle.
RestingStarship(position, rotation_angle) ==
    [NewStarship EXCEPT !.position = position,
                        !.rotation_angle = rotation_angle]
\* A Small asteroid away from the ship and from the bullets' paths.
DistantAsteroid ==
    [NewAsteroid("Small", Vec((-300) * UNIT, (-200) * UNIT), Vec(0, -1))
        EXCEPT !.scale = SizeScale("Small")]
\* The ship has just fired (or fired a frame ago) to its left or upwards.
FlightScenes ==
    {<<RestingStarship(p, r), DistantAsteroid, BulletFrom(p, r, n)>> :
        p \in {ZERO, Vec(100 * UNIT, 50 * UNIT)},
        r \in {0, QUARTER_TURN},
        n \in {0, 1}}

FlightInit == \E scene \in FlightScenes : SceneInit(scene)
BeginFlightFrame == BeginFrameWithin(MaxFlightTicks)
NextFlight == BeginFlightFrame \/ Frame
SpecFlight == FlightInit /\ [][NextFlight]_vars

\* A ship that has thrust n times from rest along its heading, the clamp
\* included, and is at the origin again.
ThrustingStarship(rotation_angle, n) ==
    LET step == Times(Direction(rotation_angle), STARSHIP_ACCELERATION)
        v == Vec(n * step.x, n * step.y)
    IN [NewStarship EXCEPT
          !.rotation_angle = rotation_angle,
          !.velocity = IF LengthGt(v, STARSHIP_MAX_VELOCITY * UNIT)
                       THEN Times(NormalizeOrZero(v), STARSHIP_MAX_VELOCITY * UNIT)
                       ELSE v]
\* The ship is near its top speed, ArrowUp still held.
ShipScenes ==
    {<<ThrustingStarship(r, n), DistantAsteroid>> :
        r \in {0, 9, 13, FULL_TURN - 20},
        n \in {49, 50, 70, 71}}

ShipInit ==
    \E scene \in ShipScenes :
        SceneInitWith(scene, [NoKeys EXCEPT !.ArrowUp = TRUE], 0)
SpecShip == ShipInit /\ [][NextHits]_vars

\* Coordinates at and just inside the two points where an entity of the
\* given half scale wraps, and the centre.
EdgeCoords(max, half_scale) ==
    {max + half_scale, max + half_scale - UNIT, 0,
     UNIT - max - half_scale, (-max) - half_scale}
\* Headings along the axes and the diagonals.
CompassDraws ==
    {Vec(x, y) : x \in {-1, 0, 1}, y \in {-1, 0, 1}} \ {ZERO}
\* The ship at rest and one entity near an edge of the window.
WrapScenes(b) ==
    {<<NewStarship, [a EXCEPT !.position = Vec(x, y)]>> :
        a \in {[NewAsteroid("Big", ZERO, h) EXCEPT !.scale = SizeScale("Big")] :
                  h \in CompassDraws}
              \cup {NewAsteroid("Small", ZERO, h) : h \in CompassDraws}
              \cup {BulletFrom(ZERO, r, 0) : r \in {0, 9, QUARTER_TURN}},
        x \in EdgeCoords(b.half_width, (SizeScale("Big") * UNIT) \div 2)
                \cup EdgeCoords(b.half_width, (BULLET_SCALE * UNIT) \div 2)
                \cup EdgeCoords(b.half_width, (DEFAULT_SCALE * UNIT) \div 2),
        y \in EdgeCoords(b.half_height, (SizeScale("Big") * UNIT) \div 2)
                \cup EdgeCoords(b.half_height, (BULLET_SCALE * UNIT) \div 2)
                \cup EdgeCoords(b.half_height, (DEFAULT_SCALE * UNIT) \div 2)}

\* The systems that run before s in an order.
Before(order, s) ==
    {order[j] : j \in {k \in DOMAIN order : \E n \in DOMAIN order :
                                              n > k /\ order[n] = s}}
\* A frame of a native build that has come to update_position, no key held.
WrapInit ==
    \E w \in WindowSizes, order \in Schedules :
        /\ platform = "native"
        /\ schedule = order
        /\ mobile = [present |-> FALSE, left |-> FALSE, right |-> FALSE,
                     up |-> FALSE, fire_just_pressed |-> FALSE]
        /\ window = w
        /\ bounds = BoundsOf(w)
        /\ keys = NoKeys
        /\ virtual = [left |-> FALSE, right |-> FALSE, up |-> FALSE,
                      fire |-> FALSE]
        /\ entities \in WrapScenes(BoundsOf(w))
        /\ commands = NoCommands
        /\ reset_events = 0
        /\ ran = Before(order, "update_position")
        /\ phase = "update"
        /\ tick = 1
        /\ inputs = MaxInputs
        /\ resizes = MaxResizes
        /\ unfired = 0
        /\ applied = IF "decelerate_starship" \in Before(order, "update_position")
                     THEN {"decelerate"} ELSE {}
NextWrap == update_position
SpecWrap == WrapInit /\ [][NextWrap]_vars

\* random() = 0.5 on both axes: get_random_point returns (0, 0).
CentreDraw == Draw(0, 0)
\* Heading draws of setup, the centre of the range among them.
SpawnHeadingDraws == {CentreDraw, Draw(0, 1), Draw(9, -9)}
\* The game as setup leaves it: the asteroids away from the ship, the first
\* one's heading drawn from SpawnHeadingDraws.
SpawnScenes ==
    {setup([i \in 1..NUM_ASTEROIDS |->
              <<FarDraw, IF i = 1 THEN h ELSE Draw(0, 1)>>]) :
        h \in SpawnHeadingDraws}
SpawnInit == \E scene \in SpawnScenes : SceneInitWith(scene, NoKeys, 0)
SpecSpawn == SpawnInit /\ [][NextHits]_vars

\* The two children of a split at a position, one move later: they have
\* drifted apart along their headings and their scales are synced.
TwinAsteroids(size, position, h1, h2) ==
    [i \in 1..CHILDREN |->
        LET a == NewAsteroid(size, position, IF i = 1 THEN h1 ELSE h2)
        IN [a EXCEPT !.position = VAdd(position, a.velocity),
                     !.scale = SizeScale(size)]]
\* One bullet on its way up from the ship, and the children of a split
\* beside its line of fire.
TwinScenes ==
    {<<NewStarship>>
        \o TwinAsteroids(size,
                         Vec(HitOffset(size) * UNIT, n * BULLET_VELOCITY * UNIT),
                         Vec(-1, 0), h)
        \o <<BulletAfter(n)>> :
        size \in {"Medium", "Small"},
        n \in {10, 11},
        h \in {Vec(-1, 1), Vec(-1, -1), Vec(1, 0)}}
TwinsInit == \E scene \in TwinScenes : SceneInit(scene)
SpecTwins == TwinsInit /\ [][NextHits]_vars

\* The host runs frame after frame; no input arrives and the window keeps
\* its size.  tick stops counting at MaxFlightTicks.
BeginFrameOn ==
    /\ phase = "idle"
    /\ phase' = "update"
    /\ tick' = IF tick < MaxFlightTicks THEN tick + 1 ELSE tick
    /\ ran' = {}
    /\ applied' = {}
    /\ schedule' \in IF platform = "native" THEN Schedules ELSE {schedule}
    /\ UNCHANGED <<platform, window, bounds, keys, virtual, mobile, entities,
                   commands, reset_events, inputs, resizes, unfired>>
\* Every asteroid has been shot; the ship, at rest at the origin, has just
\* fired upwards or to its left.
ClearedScenes ==
    {<<RestingStarship(ZERO, r), BulletFrom(ZERO, r, 0)>> :
        r \in {0, QUARTER_TURN}}
ClearedInit == \E scene \in ClearedScenes : SceneInit(scene)
NextForever == BeginFrameOn \/ Frame
\* The app's runner never stops running frames, and a frame runs each of its
\* systems.
SpecForever ==
    ClearedInit /\ [][NextForever]_vars /\ WF_vars(NextForever)

\* ------------------------------------------------------------ properties
\* The ship's velocity before the clamp of a thrust step that ends with the
\* given rotation_angle.
Unclamped(velocity, rotation_angle) ==
    VAdd(velocity, Times(Direction(rotation_angle), STARSHIP_ACCELERATION))
\* v has magnitude 10, to within two quanta.
AtTopSpeed(v) ==
    /\ LengthSq(v) <= (10 * UNIT) * (10 * UNIT)
    /\ LengthSq(v) >= (10 * UNIT - 2) * (10 * UNIT - 2)
\* v points the way w does, to within the rounding of its components.
SameDirection(v, w) ==
    /\ v.x * w.x + v.y * w.y > 0
    /\ Abs(v.x * w.y - v.y * w.x) <= 2 * (Abs(w.x) + Abs(w.y))
\* The frame is over and its commands are applied.
BetweenFrames == phase = "idle" /\ tick > 0
\* The system has run in the current frame.
HasRun(s) == s \in ran
\* The step is a run of the system.
Runs(s) == s \notin ran /\ s \in ran'

FreshStarship(e) ==
    /\ e.kind = "Starship"
    /\ e.rotation_angle = 0
    /\ e.velocity = ZERO
    /\ e.position = ZERO

\* C1: at the end of a frame in which reset_game read a ResetGame message,
\* the store holds exactly one Starship (rotation 0, velocity zero, at the
\* origin), exactly six asteroids, all Big, and no Bullet.
C1_ResetInvariant ==
    (BetweenFrames /\ "reset" \in applied) =>
        /\ Cardinality(Indices("Starship")) = 1
        /\ \A i \in Indices("Starship") : FreshStarship(entities[i])
        /\ Cardinality(Indices("Asteroid")) = NUM_ASTEROIDS
        /\ \A i \in Indices("Asteroid") : entities[i].size = "Big"
        /\ Indices("Bullet") = {}

\* C2: between frames, from the end of setup on, the store holds exactly one
\* Starship.
C2_OneStarship ==
    phase = "idle" => Cardinality(Indices("Starship")) = 1
\* A frame with a reset has ended.
C2_Witness ==
    /\ BetweenFrames
    /\ "reset" \in applied
    /\ Cardinality(Indices("Starship")) = 1

\* The asteroids of a size that a queue spawns at a position.
ChildrenQueued(q, size, position) ==
    Cardinality({j \in DOMAIN q :
        /\ q[j].op = "spawn"
        /\ q[j].bundle.kind = "Asteroid"
        /\ q[j].bundle.size = size
        /\ q[j].bundle.position = position})
\* The asteroids of a size that a queue spawns anywhere.
SpawnedOfSize(q, size) ==
    Cardinality({j \in DOMAIN q :
        q[j].op = "spawn" /\ q[j].bundle.kind = "Asteroid" /\ q[j].bundle.size = size})
\* The tier below a size: what a destroyed asteroid is replaced with.
NextTierDown(size) ==
    CASE size = "Big" -> "Medium"
      [] size = "Medium" -> "Small"
      [] size = "Small" -> "nothing"

\* C3: a run of detect_bullet_asteroid_collision queues, for the asteroids it
\* destroys, exactly two asteroids of the next tier down per destroyed Big
\* or Medium asteroid, at the positions of the destroyed ones, and nothing
\* else: none for a Small one, and none of an equal or larger size.
C3_SplitInTwo ==
    [][Runs("detect_bullet_asteroid_collision") =>
        LET q == commands'.detect_bullet_asteroid_collision
            destroyed == Despawned(q) \cap Indices("Asteroid")
            parents(size) == {a \in destroyed : NextTierDown(entities[a].size) = size}
        IN \A size \in {"Big", "Medium", "Small"} :
             /\ SpawnedOfSize(q, size) = 2 * Cardinality(parents(size))
             /\ \A a \in parents(size) :
                   ChildrenQueued(q, size, entities[a].position) =
                     2 * Cardinality({o \in parents(size) :
                            entities[o].position = entities[a].position})
    ]_vars

\* C4: within a frame keyboard_events runs before update_position,
\* update_position before both collision checks, and reset_game after both
\* collision checks.
C4_FixedOrder ==
    /\ HasRun("update_position") => HasRun("keyboard_events")
    /\ HasRun("detect_starship_asteroid_collision") => HasRun("update_position")
    /\ HasRun("detect_bullet_asteroid_collision") => HasRun("update_position")
    /\ HasRun("reset_game") =>
          /\ HasRun("detect_starship_asteroid_collision")
          /\ HasRun("detect_bullet_asteroid_collision")

\* C5: in each frame the ship is decelerated exactly when it is not thrust
\* (thrust is gated by the merged up_pressed): never both, never neither.
C5_ThrustXorDecelerate ==
    BetweenFrames => (("thrust" \in applied) # ("decelerate" \in applied))

\* C6: a run of remove_bullet queues the despawn of exactly the bullets it
\* observes more than 576 units from their start, and those bullets are gone
\* when the frame ends (no bullet hits an asteroid, none is fired, no reset).
C6_BulletLifetime ==
    [][/\ Runs("remove_bullet") =>
            \A i \in Indices("Bullet") :
                i \in Despawned(commands'.remove_bullet)
                    <=> LengthSq(VSub(entities[i].start, entities[i].position))
                            > (576 * UNIT) * (576 * UNIT)
       /\ (phase = "update" /\ phase' = "idle") =>
            Cardinality({i \in DOMAIN entities' : entities'[i].kind = "Bullet"})
                = Cardinality(Indices("Bullet") \ Despawned(commands.remove_bullet))
    ]_vars
\* remove_bullet has observed a bullet out of range, after at least 97 frames.
C6_Witness ==
    /\ phase = "update"
    /\ HasRun("remove_bullet")
    /\ commands.remove_bullet # <<>>
    /\ tick >= 97
    /\ applied = {"decelerate"}

\* C7: every touch fire report is turned into a bullet exactly once: no
\* report is overwritten before keyboard_events read it, none is read
\* twice, a pending report is still in the snapshot; a consume reports the
\* flag it finds and leaves it false; keyboard_events queues one bullet
\* when the snapshot reports fire.
C7_OneShotFire ==
    /\ [](/\ unfired \in {0, 1}
          /\ unfired = 1 => mobile.fire_just_pressed)
    /\ [][/\ Runs("sync_mobile_input") =>
                /\ mobile'.fire_just_pressed = virtual.fire
                /\ ~virtual'.fire
          /\ (Runs("keyboard_events") /\ mobile.fire_just_pressed) =>
                /\ Len(commands'.keyboard_events) = 1
                /\ commands'.keyboard_events[1].bundle.kind = "Bullet"
                /\ unfired' = 0
       ]_vars
\* keyboard_events has queued the bullet of a touch fire report, two calls
\* having been made and no key pressed.
C7_Witness ==
    /\ platform = "wasm"
    /\ inputs = 2
    /\ keys = NoKeys
    /\ ~virtual.up /\ ~virtual.left /\ ~virtual.right
    /\ phase = "update"
    /\ HasRun("sync_mobile_input")
    /\ HasRun("keyboard_events")
    /\ Len(commands.keyboard_events) = 1
    /\ unfired = 0

\* C8 (collapse): the run of reset_game that resets leaves no ResetGame
\* message pending, however many were pending.
C8_SignalsCollapse ==
    [][("reset" \notin applied /\ "reset" \in applied') => reset_events' = 0]_vars

\* C9: the ship's speed never exceeds 10, and a thrust step that would
\* exceed it leaves the velocity at magnitude 10 (to the resolution of the
\* model) in the direction it had before the clamp.
C9_SpeedBound ==
    /\ [](\A i \in Indices("Starship") :
            LengthSq(entities[i].velocity) <= (10 * UNIT) * (10 * UNIT))
    /\ [][(Runs("keyboard_events") /\ "thrust" \in applied') =>
            \A i \in Indices("Starship") :
                LET w == Unclamped(entities[i].velocity,
                                   entities'[i].rotation_angle)
                    v == entities'[i].velocity
                IN IF LengthSq(w) > (10 * UNIT) * (10 * UNIT)
                   THEN AtTopSpeed(v) /\ SameDirection(v, w)
                   ELSE v = w
       ]_vars
\* A thrust step has been clamped while the ship was turning.
C9_Witness ==
    /\ phase = "update"
    /\ HasRun("keyboard_events")
    /\ keys.ArrowUp /\ keys.ArrowLeft
    /\ tick = 2
    /\ \E i \in Indices("Starship") :
          /\ AtTopSpeed(entities[i].velocity)
          /\ entities[i].rotation_angle = 10

\* C10: one integration step moves every entity to p = position + velocity,
\* except that on each axis, independently, a coordinate beyond
\* half extent + half_scale becomes exactly -(half extent + half_scale), and
\* one below -(half extent + half_scale) becomes exactly
\* half extent + half_scale.
C10_ToroidalWrap ==
    [][Runs("update_position") =>
        \A i \in DOMAIN entities :
            LET px == entities[i].position.x + entities[i].velocity.x
                py == entities[i].position.y + entities[i].velocity.y
                half_scale == (entities[i].scale * UNIT) \div 2
                right == bounds.half_width + half_scale
                top == bounds.half_height + half_scale
            IN /\ entities'[i].position.x =
                    IF px > right THEN -right
                    ELSE IF px < -right THEN right ELSE px
               /\ entities'[i].position.y =
                    IF py > top THEN -top
                    ELSE IF py < -top THEN top ELSE py
    ]_vars
\* An entity heading right and down has left by the bottom right corner and
\* re-entered at the top left one.
C10_Witness ==
    /\ HasRun("update_position")
    /\ \E i \in DOMAIN entities :
          /\ entities[i].velocity.x > 0
          /\ entities[i].velocity.y < 0
          /\ entities[i].position.x =
                (-bounds.half_width) - (entities[i].scale * UNIT) \div 2
          /\ entities[i].position.y =
                bounds.half_height + (entities[i].scale * UNIT) \div 2

\* C11: no entity has a NaN velocity, whatever point get_random_point
\* returned for its heading, the zero vector included.
C11_NoInvalidVectors ==
    \A i \in DOMAIN entities : ~entities[i].velocity.nan

\* C12: a run of reset_game with no ResetGame message pending queues no
\* despawn and no spawn and leaves every entity as it was.
C12_ResetNoOp ==
    [][(Runs("reset_game") /\ reset_events = 0) =>
          /\ commands'.reset_game = <<>>
          /\ commands' = commands
          /\ entities' = entities
          /\ reset_events' = 0]_vars
\* reset_game has run without a message while a bullet was in flight.
C12_Witness ==
    /\ phase = "update"
    /\ HasRun("reset_game")
    /\ "reset" \notin applied
    /\ reset_events = 0
    /\ Indices("Bullet") # {}
    /\ Indices("Starship") # {}
    /\ Indices("Asteroid") # {}

\* The merged one-shot fire input that keyboard_events computes.
FireJustPressed == keys.Space \/ (mobile.present /\ mobile.fire_just_pressed)
\* v has magnitude 6, to within two quanta.
AtBulletSpeed(v) ==
    /\ LengthSq(v) <= (6 * UNIT) * (6 * UNIT)
    /\ LengthSq(v) >= (6 * UNIT - 2) * (6 * UNIT - 2)

\* C13: a run of keyboard_events with fire_just_pressed queues exactly one
\* Bullet, whose position and start are the ship's position at that moment
\* and whose velocity is direction(rotation_angle) * 6 for the rotation_angle
\* as this run has updated it, whatever the ship's velocity; without
\* fire_just_pressed it queues nothing.
C13_Firing ==
    [][Runs("keyboard_events") =>
         LET q == commands'.keyboard_events
         IN IF FireJustPressed
            THEN /\ Len(q) = 1
                 /\ q[1].op = "spawn"
                 /\ q[1].bundle.kind = "Bullet"
                 /\ AtBulletSpeed(q[1].bundle.velocity)
                 /\ Cardinality(Indices("Starship")) = 1
                 /\ \A s \in Indices("Starship") :
                      /\ q[1].bundle.position = entities[s].position
                      /\ q[1].bundle.start = entities[s].position
                      /\ q[1].bundle.velocity =
                           Times(Direction(entities'[s].rotation_angle),
                                 6 * UNIT)
            ELSE q = <<>>
    ]_vars
\* The ship has fired while moving, away from the origin.
C13_Witness ==
    /\ phase = "update"
    /\ HasRun("keyboard_events")
    /\ "fire" \in applied
    /\ Len(commands.keyboard_events) = 1
    /\ \E s \in Indices("Starship") :
          /\ entities[s].position # ZERO
          /\ entities[s].velocity # ZERO
          /\ commands.keyboard_events[1].bundle.start = entities[s].position

\* The merged left and right inputs that keyboard_events computes.
LeftPressed == keys.ArrowLeft \/ (mobile.present /\ mobile.left)
RightPressed == keys.ArrowRight \/ (mobile.present /\ mobile.right)

\* C14: a run of keyboard_events changes rotation_angle by one rotation step
\* up if left is pressed (right pressed or not), by one step down if only
\* right is pressed, and not at all if neither is; no other system changes it.
C14_Rotation ==
    [][\A s \in Indices("Starship") :
          IF Runs("keyboard_events")
          THEN entities'[s].rotation_angle - entities[s].rotation_angle =
                 (IF LeftPressed THEN 1 ELSE IF RightPressed THEN -1 ELSE 0)
          ELSE (phase = "update" /\ ran' # ran) =>
                 entities'[s].rotation_angle = entities[s].rotation_angle
    ]_vars
\* The ship has turned left with both left and right held.
C14_Witness ==
    /\ phase = "update"
    /\ HasRun("keyboard_events")
    /\ keys.ArrowLeft /\ keys.ArrowRight
    /\ tick = 1
    /\ \E s \in Indices("Starship") : entities[s].rotation_angle = 1

\* C15: at the end of every frame no ResetGame message is left unread: the
\* frame in which the collision check raises it is the one that consumes it.
C15_SameTickReset == BetweenFrames => reset_events = 0

\* C16: whenever update_position or a collision check runs, the scale it
\* reads for each asteroid is the scale of the asteroid's size.
C16_TierScaleRead ==
    [][(\/ Runs("update_position")
        \/ Runs("detect_starship_asteroid_collision")
        \/ Runs("detect_bullet_asteroid_collision")) =>
          \A a \in Indices("Asteroid") :
              entities[a].scale = SizeScale(entities[a].size)
    ]_vars

\* C17: a run of detect_bullet_asteroid_collision queues the despawn of every
\* asteroid that a bullet overlaps, however many one bullet overlaps, and two
\* children of the next tier at the position of each one that is not Small.
C17_MultiHit ==
    [][Runs("detect_bullet_asteroid_collision") =>
         LET q == commands'.detect_bullet_asteroid_collision
         IN \A b \in Indices("Bullet") :
              LET over == {a \in Indices("Asteroid") :
                             BulletHits(entities[b], entities[a])}
              IN /\ over \subseteq Despawned(q)
                 /\ over # {} => b \in Despawned(q)
                 /\ \A a \in over :
                       NextTierDown(entities[a].size) # "nothing" =>
                          ChildrenQueued(q, NextTierDown(entities[a].size),
                                         entities[a].position) >= CHILDREN
    ]_vars
\* One bullet has destroyed two asteroids in one run of the check.
C17_Witness ==
    /\ phase = "update"
    /\ HasRun("detect_bullet_asteroid_collision")
    /\ Cardinality(Indices("Bullet")) = 1
    /\ Indices("Bullet") \subseteq Despawned(commands.detect_bullet_asteroid_collision)
    /\ Cardinality(Despawned(commands.detect_bullet_asteroid_collision)
                     \cap Indices("Asteroid")) = 2
    /\ SpawnedOfSize(commands.detect_bullet_asteroid_collision, "Small") = 4

\* The entity's position is a point of the playfield that the bounds and
\* the entity's half scale span.
Contained(e, b) ==
    /\ ~e.position.nan
    /\ Abs(e.position.x) <= b.half_width + HalfScale(e)
    /\ Abs(e.position.y) <= b.half_height + HalfScale(e)

\* C18: after every run of update_position each entity lies within
\* half_width + half_scale of the centre on x and half_height + half_scale
\* on y, for the bounds and the scale that run has used.
C18_Containment ==
    [][Runs("update_position") =>
          \A i \in DOMAIN entities : Contained(entities'[i], bounds)]_vars

\* The despawn requests an entity has received in this frame.
DespawnRequests(i) ==
    Cardinality({j \in DOMAIN AllCommands : AllCommands[j] = Despawn(i)})

\* C19: within a frame no entity receives more than one despawn request
\* from remove_bullet, detect_bullet_asteroid_collision and reset_game
\* together.
C19_NoDoubleDespawn ==
    \A i \in DOMAIN entities : DespawnRequests(i) <= 1

\* C20: every bullet is removed after finitely many frames, without a hit
\* and without a reset: with no further shot, eventually no bullet is left.
C20_BulletsRemoved == <>(Indices("Bullet") = {})
====
